---- MODULE Spec2Model ----
(***************************************************************************)
(* Verification model of rwgfx: the Animated<T> interpolator               *)
(* (animation.rs), the Button, Sprite and Text widgets with their          *)
(* dirty-flag buffer synchronisation (button.rs, sprite.rs, text.rs) and   *)
(* the font cache enlargement of TextHandler (text.rs).                    *)
(*                                                                         *)
(* Numbers.  An f32 is modelled as an exact rational <<n, d>> in lowest    *)
(* terms with d > 0, or as one of the IEEE-754 special values: rounding is *)
(* abstracted away, the special values and their arithmetic are kept.      *)
(* Durations (chrono::Duration) are integers, in milliseconds.             *)
(***************************************************************************)
EXTENDS Integers, Sequences, FiniteSets, TLC

VARIABLES
    anim,       \* Spec: the Animated<f32> value under test
    hist,       \* Spec: bookkeeping of the calls made since the last set_target
    last,       \* Spec: the last call made on anim
    button,     \* SpecButton: the Button
    bgpu,       \* SpecButton: GPU side of the button (buffers, writes of the last draw)
    bev,        \* SpecButton: bookkeeping of the delivered and consumed events
    sprite,     \* SpecSprite: the Sprite
    sframe,     \* SpecSprite: loaded textures, GPU side of the sprite, last call
    texts,      \* SpecText: the Text objects created so far
    fonts,      \* SpecText: TextHandler::fonts, font ID -> FontData
    tframe      \* SpecText: the last call and what it issued to the frame context

textVars == <<texts, fonts, tframe>>

vars == <<anim, hist, last, button, bgpu, bev, sprite, sframe, texts, fonts, tframe>>

(***************************************************************************)
(* f32 values                                                              *)
(***************************************************************************)
NaN == <<0, 0>>
PosInf == <<1, 0>>
NegInf == <<-1, 0>>

Abs(n) == IF n < 0 THEN -n ELSE n

Sign(n) == IF n < 0 THEN -1 ELSE IF n > 0 THEN 1 ELSE 0

RECURSIVE GCD(_, _)
GCD(a, b) == IF b = 0 THEN a ELSE GCD(b, a % b)

\* The value n / d as f32 division gives it: x/0 is an infinity, 0/0 is NaN.
Norm(n, d) ==
    IF d = 0 THEN <<Sign(n), 0>>
    ELSE LET g == GCD(Abs(n), Abs(d))
             s == Sign(d)
         IN <<(s * n) \div g, (s * d) \div g>>

Fin(n) == <<n, 1>>

IsNaN(a) == a = NaN
IsInf(a) == a[2] = 0 /\ a[1] # 0
IsFinite(a) == a[2] > 0

Neg(a) == <<-a[1], a[2]>>

Add(a, b) ==
    IF IsNaN(a) \/ IsNaN(b) THEN NaN
    ELSE IF IsInf(a) THEN (IF IsInf(b) /\ b # a THEN NaN ELSE a)
    ELSE IF IsInf(b) THEN b
    ELSE Norm(a[1] * b[2] + b[1] * a[2], a[2] * b[2])

Sub(a, b) == Add(a, Neg(b))

Mul(a, b) ==
    IF IsNaN(a) \/ IsNaN(b) THEN NaN
    ELSE IF IsInf(a) \/ IsInf(b)
         THEN (IF a[1] = 0 \/ b[1] = 0 THEN NaN ELSE <<Sign(a[1]) * Sign(b[1]), 0>>)
    ELSE Norm(a[1] * b[1], a[2] * b[2])

\* f32 ==: NaN is equal to nothing, itself included.
EqVal(a, b) == ~IsNaN(a) /\ ~IsNaN(b) /\ a = b

\* f32 <=: false when either side is NaN.
LeVal(a, b) ==
    /\ ~IsNaN(a)
    /\ ~IsNaN(b)
    /\ \/ a = b
       \/ a = NegInf
       \/ b = PosInf
       \/ IsFinite(a) /\ IsFinite(b) /\ a[1] * b[2] <= b[1] * a[2]

LtVal(a, b) == LeVal(a, b) /\ a # b

(***************************************************************************)
(* The animated type T: a tuple of f32 (f32 itself is a 1-tuple, Point2    *)
(* and Vector2 are 2-tuples), with the operators Animated<T> requires:     *)
(* PartialEq, Sub, Mul<f32> and AddAssign.                                 *)
(***************************************************************************)
TEq(a, b) == \A i \in DOMAIN a : EqVal(a[i], b[i])
TSub(a, b) == [i \in DOMAIN a |-> Sub(a[i], b[i])]
TScale(a, p) == [i \in DOMAIN a |-> Mul(a[i], p)]
TAdd(a, b) == [i \in DOMAIN a |-> Add(a[i], b[i])]

(***************************************************************************)
(* Animated<T>                                                             *)
(***************************************************************************)
\* Animated::new
AnimatedNew(current, duration) ==
    [target |-> current, current |-> current, duration |-> duration, elapsed_time |-> 0]

\* Animated::complete
Complete(a) == TEq(a.target, a.current)

\* Mutant: set_target that also moves current to the new target.
SetTargetTeleports(a, target) ==
    [a EXCEPT !.target = target, !.current = target, !.elapsed_time = 0]

\* Animated::set_target
SetTarget(a, target) == [a EXCEPT !.target = target, !.elapsed_time = 0]

\* Mutant: a snap branch that forgets to assign current.
SnapKeepsCurrent(a) == [a EXCEPT !.elapsed_time = a.duration]

\* The snap branch of Animated::update
Snap(a) == [a EXCEPT !.current = a.target, !.elapsed_time = a.duration]

\* Mutant: the distance taken from the target to current.
InterpolateAway(a, elapsed) ==
    LET remaining_time == a.duration - a.elapsed_time
        progress_perc == Norm(elapsed, remaining_time)
        distance == TSub(a.current, a.target)
    IN [a EXCEPT
          !.current = IF ~IsNaN(progress_perc)
                      THEN TAdd(a.current, TScale(distance, progress_perc))
                      ELSE a.current,
          !.elapsed_time = a.elapsed_time + elapsed]

\* Mutant: the progress taken relative to the whole duration.
InterpolateOverTotal(a, elapsed) ==
    LET progress_perc == Norm(elapsed, a.duration)
        distance == TSub(a.target, a.current)
    IN [a EXCEPT
          !.current = IF ~IsNaN(progress_perc)
                      THEN TAdd(a.current, TScale(distance, progress_perc))
                      ELSE a.current,
          !.elapsed_time = a.elapsed_time + elapsed]

\* Mutant: the progress taken relative to the time left after the step.
InterpolateOverRest(a, elapsed) ==
    LET remaining_time == a.duration - a.elapsed_time
        progress_perc == Norm(elapsed, remaining_time - elapsed)
        distance == TSub(a.target, a.current)
    IN [a EXCEPT
          !.current = IF ~IsNaN(progress_perc)
                      THEN TAdd(a.current, TScale(distance, progress_perc))
                      ELSE a.current,
          !.elapsed_time = a.elapsed_time + elapsed]

\* The interpolation branch of Animated::update
Interpolate(a, elapsed) ==
    LET remaining_time == a.duration - a.elapsed_time
        progress_perc == Norm(elapsed, remaining_time)
        distance == TSub(a.target, a.current)
    IN [a EXCEPT
          !.current = IF ~IsNaN(progress_perc)
                      THEN TAdd(a.current, TScale(distance, progress_perc))
                      ELSE a.current,
          !.elapsed_time = a.elapsed_time + elapsed]

\* Mutant: the snap test made with < in place of <=.
UpdateStrict(a, elapsed) ==
    IF a.duration - a.elapsed_time < elapsed THEN Snap(a) ELSE Interpolate(a, elapsed)

\* Mutant: an update without the snap branch.
UpdateNeverSnaps(a, elapsed) == Interpolate(a, elapsed)

\* Animated::update
Update(a, elapsed) ==
    IF a.duration - a.elapsed_time <= elapsed THEN Snap(a) ELSE Interpolate(a, elapsed)

(***************************************************************************)
(* Button                                                                  *)
(***************************************************************************)
\* Animation durations chosen by Button::new, in milliseconds.
PositionDuration == 200
SizeDuration == 200
AlphaDuration == 100

\* The overlay alpha increment of consume_event: 0.1.
AlphaStep == Norm(1, 10)

\* Button::compute_vertices
ComputeVertices(size) ==
    << <<Fin(0), Fin(0)>>, <<Fin(0), size[2]>>, <<size[1], size[2]>>, <<size[1], Fin(0)>> >>

\* Button::new (z_index and back_colour never change and are left out)
ButtonNew(position, size) ==
    [position |-> AnimatedNew(position, PositionDuration),
     size |-> AnimatedNew(size, SizeDuration),
     hovered |-> FALSE,
     pressed |-> FALSE,
     overlay_alpha |-> AnimatedNew(<<Fin(0)>>, AlphaDuration),
     vertices |-> ComputeVertices(size),
     mesh_uniform |-> [position |-> position, overlay_alpha |-> Fin(0)],
     vertex_buffer_to_update |-> FALSE,
     mesh_uniform_buffer_to_update |-> FALSE]

\* The buffers create_buffer_init fills in Button::new; writes are the write_buffer
\* calls of the last draw.
ButtonBuffers(b) ==
    [vertex_buffer |-> b.vertices, mesh_uniform_buffer |-> b.mesh_uniform, writes |-> <<>>]

\* Mutant: the target set to the increment itself, not moved by it.
SetAlphaTarget(b, delta) == [b EXCEPT !.overlay_alpha = SetTarget(@, <<delta>>)]

\* overlay_alpha.set_target(overlay_alpha.target() + delta)
ShiftAlphaTarget(b, delta) ==
    [b EXCEPT !.overlay_alpha = SetTarget(@, <<Add(@.target[1], delta)>>)]

\* The test "the cursor is on the button" of consume_event
CursorOnButton(b, cursor) ==
    LET current_button_position == b.position.current
        current_button_size == b.size.current
        right_coord == Add(current_button_position[1], current_button_size[1])
        down_coord == Add(current_button_position[2], current_button_size[2])
    IN /\ LeVal(current_button_position[1], cursor[1])
       /\ LeVal(cursor[1], right_coord)
       /\ LeVal(current_button_position[2], cursor[2])
       /\ LeVal(cursor[2], down_coord)

\* Mutant: a cursor that leaves the button clears hovered and keeps the target.
OnCursorMovedLeaveKeepsTarget(b, cursor) ==
    IF CursorOnButton(b, cursor)
    THEN IF ~b.hovered
         THEN [button |-> ShiftAlphaTarget([b EXCEPT !.hovered = TRUE], AlphaStep),
               event_consumed |-> TRUE]
         ELSE [button |-> b, event_consumed |-> FALSE]
    ELSE IF b.hovered
         THEN [button |-> [b EXCEPT !.hovered = FALSE], event_consumed |-> TRUE]
         ELSE [button |-> b, event_consumed |-> FALSE]

\* consume_event, WindowEvent::CursorMoved
OnCursorMoved(b, cursor) ==
    IF CursorOnButton(b, cursor)
    THEN IF ~b.hovered
         THEN [button |-> ShiftAlphaTarget([b EXCEPT !.hovered = TRUE], AlphaStep),
               event_consumed |-> TRUE]
         ELSE [button |-> b, event_consumed |-> FALSE]
    ELSE IF b.hovered
         THEN [button |-> ShiftAlphaTarget([b EXCEPT !.hovered = FALSE], Neg(AlphaStep)),
               event_consumed |-> TRUE]
         ELSE [button |-> b, event_consumed |-> FALSE]

\* Mutant: a release of the left button handled only while the cursor hovers.
OnMouseInputWhileHovered(b, state, mouse_button) ==
    IF mouse_button # "Left" \/ ~b.hovered THEN [button |-> b, event_consumed |-> FALSE]
    ELSE IF b.pressed
         THEN IF state = "Released"
              THEN [button |-> ShiftAlphaTarget([b EXCEPT !.pressed = FALSE], Neg(AlphaStep)),
                    event_consumed |-> TRUE]
              ELSE [button |-> b, event_consumed |-> FALSE]
         ELSE IF state = "Pressed"
              THEN [button |-> ShiftAlphaTarget([b EXCEPT !.pressed = TRUE], AlphaStep),
                    event_consumed |-> TRUE]
              ELSE [button |-> b, event_consumed |-> FALSE]

\* consume_event, WindowEvent::MouseInput
OnMouseInput(b, state, mouse_button) ==
    IF mouse_button # "Left" THEN [button |-> b, event_consumed |-> FALSE]
    ELSE IF b.pressed
         THEN IF state = "Released"
              THEN [button |-> ShiftAlphaTarget([b EXCEPT !.pressed = FALSE], Neg(AlphaStep)),
                    event_consumed |-> TRUE]
              ELSE [button |-> b, event_consumed |-> FALSE]
         ELSE IF b.hovered /\ state = "Pressed"
              THEN [button |-> ShiftAlphaTarget([b EXCEPT !.pressed = TRUE], AlphaStep),
                    event_consumed |-> TRUE]
              ELSE [button |-> b, event_consumed |-> FALSE]

\* Button::consume_event
ConsumeEvent(b, event) ==
    CASE event.type = "CursorMoved" -> OnCursorMoved(b, event.position)
      [] event.type = "MouseInput" -> OnMouseInput(b, event.state, event.button)
      [] OTHER -> [button |-> b, event_consumed |-> FALSE]

\* Mutant: an update that advances and marks every property, complete or not.
ButtonUpdateUnguarded(b, elapsed) ==
    LET position == Update(b.position, elapsed)
        size == Update(b.size, elapsed)
        overlay_alpha == Update(b.overlay_alpha, elapsed)
    IN [b EXCEPT !.position = position,
                 !.size = size,
                 !.overlay_alpha = overlay_alpha,
                 !.vertices = ComputeVertices(size.current),
                 !.mesh_uniform = [position |-> position.current,
                                   overlay_alpha |-> overlay_alpha.current[1]],
                 !.vertex_buffer_to_update = TRUE,
                 !.mesh_uniform_buffer_to_update = TRUE]

\* Mutant: an update that advances the overlay alpha and leaves the uniform as it was.
ButtonUpdateStaleUniform(b, elapsed) ==
    LET b1 == IF ~Complete(b.position)
              THEN LET position == Update(b.position, elapsed)
                   IN [b EXCEPT !.position = position,
                                !.mesh_uniform.position = position.current,
                                !.mesh_uniform_buffer_to_update = TRUE]
              ELSE b
        b2 == IF ~Complete(b1.size)
              THEN LET size == Update(b1.size, elapsed)
                   IN [b1 EXCEPT !.size = size,
                                 !.vertices = ComputeVertices(size.current),
                                 !.vertex_buffer_to_update = TRUE]
              ELSE b1
    IN IF ~Complete(b2.overlay_alpha)
       THEN [b2 EXCEPT !.overlay_alpha = Update(b2.overlay_alpha, elapsed),
                       !.mesh_uniform_buffer_to_update = TRUE]
       ELSE b2

\* Button::update
ButtonUpdate(b, elapsed) ==
    LET b1 == IF ~Complete(b.position)
              THEN LET position == Update(b.position, elapsed)
                   IN [b EXCEPT !.position = position,
                                !.mesh_uniform.position = position.current,
                                !.mesh_uniform_buffer_to_update = TRUE]
              ELSE b
        b2 == IF ~Complete(b1.size)
              THEN LET size == Update(b1.size, elapsed)
                   IN [b1 EXCEPT !.size = size,
                                 !.vertices = ComputeVertices(size.current),
                                 !.vertex_buffer_to_update = TRUE]
              ELSE b1
    IN IF ~Complete(b2.overlay_alpha)
       THEN LET overlay_alpha == Update(b2.overlay_alpha, elapsed)
            IN [b2 EXCEPT !.overlay_alpha = overlay_alpha,
                          !.mesh_uniform.overlay_alpha = overlay_alpha.current[1],
                          !.mesh_uniform_buffer_to_update = TRUE]
       ELSE b2

\* The write_buffer calls of Button::draw: the vertex buffer write is commented
\* out in the source, the mesh uniform one is made when its flag is set.
ButtonDrawWrites(b) ==
    (IF b.vertex_buffer_to_update THEN <<>> ELSE <<>>)
    \o (IF b.mesh_uniform_buffer_to_update
        THEN <<[buffer |-> "mesh_uniform_buffer", data |-> b.mesh_uniform]>>
        ELSE <<>>)

\* Mutant: a draw that leaves the mesh-uniform flag as it found it.
ButtonDrawKeepsUniformFlag(b) == [b EXCEPT !.vertex_buffer_to_update = FALSE]

\* Button::draw, the button's side: both flags are cleared.
ButtonDraw(b) ==
    [b EXCEPT !.vertex_buffer_to_update = FALSE, !.mesh_uniform_buffer_to_update = FALSE]

\* The buffers after the given write_buffer calls (each replaces a whole buffer).
RECURSIVE ApplyWrites(_, _)
ApplyWrites(buffers, writes) ==
    IF writes = <<>> THEN buffers
    ELSE ApplyWrites([buffers EXCEPT ![Head(writes).buffer] = Head(writes).data],
                     Tail(writes))

(***************************************************************************)
(* Sprite                                                                  *)
(***************************************************************************)
\* texture::ID_EMPTY
ID_EMPTY == 1

\* Sprite::compute_vertices
SpriteComputeVertices(size) ==
    << [position |-> <<Fin(0), Fin(0)>>, tex_coords |-> <<Fin(0), Fin(0)>>],
       [position |-> <<Fin(0), size[2]>>, tex_coords |-> <<Fin(0), Fin(1)>>],
       [position |-> <<size[1], size[2]>>, tex_coords |-> <<Fin(1), Fin(1)>>],
       [position |-> <<size[1], Fin(0)>>, tex_coords |-> <<Fin(1), Fin(0)>>] >>

\* Sprite::new; texture_id is an Option<u64>: <<>> is None, <<id>> is Some(id)
SpriteNew(position, size, texture_id) ==
    [vertices |-> SpriteComputeVertices(size),
     mesh_uniform |-> [position |-> position, overlay_alpha |-> Fin(0)],
     texture_id |-> IF texture_id = <<>> THEN ID_EMPTY ELSE texture_id[1],
     vertex_buffer_to_update |-> FALSE,
     mesh_uniform_buffer_to_update |-> FALSE]

\* Sprite::set_overlay_alpha
SpriteSetOverlayAlpha(sp, alpha) ==
    [sp EXCEPT !.mesh_uniform.overlay_alpha = alpha, !.mesh_uniform_buffer_to_update = TRUE]

\* Sprite::set_position
SpriteSetPosition(sp, position) ==
    [sp EXCEPT !.mesh_uniform.position = position, !.mesh_uniform_buffer_to_update = TRUE]

\* Sprite::set_size
SpriteSetSize(sp, size) ==
    [sp EXCEPT !.vertices = SpriteComputeVertices(size), !.vertex_buffer_to_update = TRUE]

\* The write_buffer calls of Sprite::draw
SpriteDrawWrites(sp) ==
    (IF sp.vertex_buffer_to_update
     THEN <<[buffer |-> "vertex_buffer", data |-> sp.vertices]>>
     ELSE <<>>)
    \o (IF sp.mesh_uniform_buffer_to_update
        THEN <<[buffer |-> "mesh_uniform_buffer", data |-> sp.mesh_uniform]>>
        ELSE <<>>)

\* Mutant: a draw that uploads and leaves the flags set.
SpriteDrawKeepsFlags(sp) == sp

\* Sprite::draw, the sprite's side: both flags are cleared.
SpriteDraw(sp) ==
    [sp EXCEPT !.vertex_buffer_to_update = FALSE, !.mesh_uniform_buffer_to_update = FALSE]

\* textures.get(&id).unwrap_or(textures.get(&ID_EMPTY).expect(..)): the argument of
\* unwrap_or is evaluated first, so a missing empty texture panics in every case.
\* <<id>> is the texture obtained, <<>> stands for the panic.
TextureOrDefault(textures, id) ==
    IF ID_EMPTY \notin textures THEN <<>>
    ELSE IF id \in textures THEN <<id>> ELSE <<ID_EMPTY>>

\* Manager::get_texture_or_default: the same lookup on the asset manager's textures
GetTextureOrDefault(textures, id) ==
    IF ID_EMPTY \notin textures THEN <<>>
    ELSE IF id \in textures THEN <<id>> ELSE <<ID_EMPTY>>

(***************************************************************************)
(* Start-up: Context::new and asset Manager::new                           *)
(***************************************************************************)
\* texture::ID_HAMBURGER
ID_HAMBURGER == 2

\* Texture::from_bytes(device, queue, bytes, label) as Context calls it: a Result,
\* of which create_default_textures handles both the Ok and the Err.
ContextFromBytesResults == BOOLEAN

\* Texture::from_image: whether the texture is obtained. The function has no failing
\* path: it ends in Ok(Self { .. }) for every image.
FromImageResults == {TRUE}

\* The failures of the steps of Context::new before the textures ("None": no failure).
ContextFailures ==
    {"None", "SurfaceCreation", "NoPhysicalGraphicsDevice", "DeviceOrQueueCreation"}

\* Context::create_default_textures: a texture that fails to load is logged and left
\* out of the map.
CreateDefaultTextures(empty_tex, hamburger_tex) ==
    (IF empty_tex THEN {ID_EMPTY} ELSE {})
    \cup (IF hamburger_tex THEN {ID_HAMBURGER} ELSE {})

\* Context::new: the Result returned and the texture map of the context
ContextNew(failure, empty_tex, hamburger_tex) ==
    IF failure # "None" THEN [owner |-> "Context", result |-> failure, textures |-> {}]
    ELSE [owner |-> "Context", result |-> "Ok",
          textures |-> CreateDefaultTextures(empty_tex, hamburger_tex)]

\* What Surface::get_current_texture returns: the frame ("Ok") or a SurfaceError.
AcquireResults == {"Ok", "Lost", "Outdated", "OutOfMemory", "Timeout"}

\* pipeline::ID_GENERAL, the pipeline create_default_render_pipelines registers
ID_GENERAL == 1

\* pipeline::ID_TEXT, the pipeline Text::draw asks for (text.rs:236); the constant
\* and the registration of its pipeline are not in pipeline.rs or context.rs.
ID_TEXT == 2

\* The keys self.render_pipelines can hold.
RenderPipelineSets == {{ID_GENERAL}, {ID_GENERAL, ID_TEXT}}

\* The orders in which HashMap::iter can go through the keys of render_pipelines.
IterOrders(keys) ==
    {order \in [1..Cardinality(keys) -> keys] :
        \A i, j \in DOMAIN order : i # j => order[i] # order[j]}

\* Mutant: the callback invoked before the pipeline and the camera are bound.
PipelineCallsDrawFirst(id) ==
    <<[op |-> "draw_calls", pipeline_id |-> id],
      [op |-> "set_pipeline", pipeline_id |-> id],
      [op |-> "set_bind_group", index |-> 0, bind_group |-> "camera"]>>

\* One turn of the loop over render_pipelines in Context::render
PipelineCalls(id) ==
    <<[op |-> "set_pipeline", pipeline_id |-> id],
      [op |-> "set_bind_group", index |-> 0, bind_group |-> "camera"],
      [op |-> "draw_calls", pipeline_id |-> id]>>

RECURSIVE RenderPassCalls(_)
\* The loop over render_pipelines, taken in the order given
RenderPassCalls(pipelines) ==
    IF pipelines = <<>> THEN <<>>
    ELSE PipelineCalls(Head(pipelines)) \o RenderPassCalls(Tail(pipelines))

\* The calls of a frame that was acquired: the render pass, then submit and present
FrameCalls(pipelines) ==
    RenderPassCalls(pipelines) \o <<[op |-> "submit"], [op |-> "present"]>>

\* Mutant: the error is mapped and the frame goes on all the same.
ContextRenderGoesOn(acquire, pipelines) ==
    [acquire |-> acquire,
     result |-> CASE acquire = "Ok" -> "Ok"
                  [] acquire \in {"Lost", "Outdated"} -> "SurfaceInvalid"
                  [] acquire = "OutOfMemory" -> "OutOfMemory"
                  [] acquire = "Timeout" -> "GraphicsDeviceNotResponding",
     callbacks |-> Len(pipelines),
     submitted |-> TRUE,
     presented |-> TRUE,
     calls |-> FrameCalls(pipelines)]

\* Context::render with render_pipelines iterated in the given order: the Result
\* returned, the number of times the draw callback is invoked, whether the encoder
\* is submitted to the queue, whether the frame is presented, and the calls made.
ContextRender(acquire, pipelines) ==
    IF acquire # "Ok"
    THEN [acquire |-> acquire,
          result |-> CASE acquire \in {"Lost", "Outdated"} -> "SurfaceInvalid"
                       [] acquire = "OutOfMemory" -> "OutOfMemory"
                       [] acquire = "Timeout" -> "GraphicsDeviceNotResponding",
          callbacks |-> 0,
          submitted |-> FALSE,
          presented |-> FALSE,
          calls |-> <<>>]
    ELSE [acquire |-> acquire,
          result |-> "Ok",
          callbacks |-> Len(pipelines),
          submitted |-> TRUE,
          presented |-> TRUE,
          calls |-> FrameCalls(pipelines)]

\* Manager::load_texture_from_image: the texture map left
LoadTextureFromImage(textures, from_image, id) ==
    IF from_image THEN textures \cup {id} ELSE textures

\* Manager::new: the Result returned and the texture map of the manager. The value
\* load_texture_from_image returns is not looked at.
ManagerNew(text_handler, empty_image, from_image) ==
    IF ~text_handler THEN [owner |-> "Manager", result |-> "FontLoading", textures |-> {}]
    ELSE IF ~empty_image
    THEN [owner |-> "Manager", result |-> "TextureLoading", textures |-> {}]
    ELSE [owner |-> "Manager", result |-> "Ok",
          textures |-> LoadTextureFromImage({}, from_image, ID_EMPTY)]

(***************************************************************************)
(* Glyph cache (rusttype::gpu_cache::Cache, as Text and TextHandler use it) *)
(***************************************************************************)
\* Number of glyphs a 1024 x 1024 cache has room for (all glyphs of one size).
GlyphsPerTile == 1

\* Cache::builder().dimensions(width, height).build(): an empty cache. A glyph is
\* known to the cache by the pair <<font id, character>>.
CacheNew(width, height) ==
    [width |-> width, height |-> height, cached |-> {}, queue |-> {}]

CacheCapacity(c) == GlyphsPerTile * (c.width \div 1024) * (c.height \div 1024)

\* Cache::queue_glyph, for every glyph of a run
QueueGlyphs(c, font_id, glyphs) ==
    [c EXCEPT !.queue = @ \cup {<<font_id, glyphs[i]>> : i \in DOMAIN glyphs}]

\* Cache::rect_for(font_id, glyph): TRUE when the glyph is in the cache
RectFor(c, font_id, glyph) == <<font_id, glyph>> \in c.cached

\* Cache::cache_queued: the possible results, each with the cache it leaves.
\*  - the uncached glyphs of the queue fit in the free room: Adding;
\*  - else rows that hold no queued glyph are dropped, oldest first: Adding when that
\*    makes room; when a row in use is in the way the cache is cleared and refilled
\*    from the queue alone: Reordering;
\*  - the queue does not fit in the empty cache: an error, the queue is kept.
CacheQueued(c) ==
    LET needed == c.queue \ c.cached
        unused == c.cached \ c.queue
        in_use == c.cached \cap c.queue
        capacity == CacheCapacity(c)
    IN  IF Cardinality(needed) <= capacity - Cardinality(c.cached)
        THEN {[result |-> "Adding",
               cache |-> [c EXCEPT !.cached = @ \cup needed, !.queue = {}]]}
        ELSE IF Cardinality(c.queue) <= capacity
        THEN {[result |-> "Adding",
               cache |-> [c EXCEPT !.cached = c.queue \cup kept, !.queue = {}]] :
                 kept \in {k \in SUBSET unused :
                             Cardinality(k) = capacity - Cardinality(c.queue)}}
             \cup (IF in_use = {} THEN {}
                   ELSE {[result |-> "Reordering",
                          cache |-> [c EXCEPT !.cached = c.queue, !.queue = {}]]})
        ELSE {[result |-> "NoRoomForWholeQueue",
               cache |-> [c EXCEPT !.cached = placed]] :
                 placed \in {k \in SUBSET c.queue : Cardinality(k) = capacity}}

(***************************************************************************)
(* TextHandler                                                             *)
(***************************************************************************)
\* text::ID_DEFAULT
ID_DEFAULT == 1

\* Width and height of the cache TextHandler::new creates.
InitialCacheSize == 1024

\* Texture::from_bytes: whether the texture is obtained. The function has no failing
\* path (no `?`, no early return): it ends in Ok(Self { .. }) for every input.
FromBytesResults == {TRUE}

\* TextHandler::create_cache, when Texture::from_bytes succeeds
CreateCache(width, height) ==
    [cache |-> CacheNew(width, height),
     cache_texture |-> [size |-> [width |-> width, height |-> height]]]

\* TextHandler::new: only the default font is loaded.
TextHandlerNew ==
    LET c == CreateCache(InitialCacheSize, InitialCacheSize)
    IN  ID_DEFAULT :> [cache |-> c.cache,
                       cache_texture |-> c.cache_texture,
                       enlarge_cache |-> FALSE,
                       next_glyph_id |-> 1,
                       positioned_glyphs |-> <<>>]

\* Mutant: a resize that keeps the flag set.
EnlargeKeepsFlag(font_data) ==
    LET c == CreateCache(font_data.cache_texture.size.width * 2,
                         font_data.cache_texture.size.height * 2)
    IN  [font_data EXCEPT !.cache = c.cache, !.cache_texture = c.cache_texture]

\* Mutant: a resize that doubles the width and keeps the height.
EnlargeWidthOnly(font_data) ==
    LET c == CreateCache(font_data.cache_texture.size.width * 2,
                         font_data.cache_texture.size.height)
    IN  [font_data EXCEPT !.cache = c.cache,
                          !.cache_texture = c.cache_texture,
                          !.enlarge_cache = FALSE]

\* TextHandler::resize_caches, the body of the loop for a font whose flag is set and
\* whose create_cache call succeeds
Enlarge(font_data) ==
    LET c == CreateCache(font_data.cache_texture.size.width * 2,
                         font_data.cache_texture.size.height * 2)
    IN  [font_data EXCEPT !.cache = c.cache,
                          !.cache_texture = c.cache_texture,
                          !.enlarge_cache = FALSE]

\* TextHandler::resize_caches over the one loaded font; created tells whether
\* create_cache succeeds. The result is the Result returned and the fonts left.
ResizeCaches(f, created) ==
    IF ~f[ID_DEFAULT].enlarge_cache THEN [result |-> "Ok", fonts |-> f]
    ELSE IF ~created THEN [result |-> "CacheCreation", fonts |-> f]
    ELSE [result |-> "Ok", fonts |-> [f EXCEPT ![ID_DEFAULT] = Enlarge(@)]]

(***************************************************************************)
(* Text                                                                    *)
(***************************************************************************)
\* char::is_control, for the characters of the model
IsControl(c) == c = "\n"

\* FontData::add_glyphs
AddGlyphs(font_data, glyphs) ==
    [font_data EXCEPT !.positioned_glyphs = Append(@, glyphs),
                      !.next_glyph_id = @ + 1]

\* The quads of Text::new: four vertices for every glyph rect_for finds
TextVertices(quads) ==
    [i \in 1..(4 * Len(quads)) |->
        [glyph |-> quads[((i - 1) \div 4) + 1], corner |-> (i - 1) % 4]]

\* The index list of Text::new: the loop runs over i in 1..quad_num
TextIndices(quad_num) ==
    [k \in 1..(IF quad_num > 1 THEN 6 * (quad_num - 1) ELSE 0) |->
        4 * (((k - 1) \div 6) + 1) + <<0, 1, 2, 2, 3, 0>>[((k - 1) % 6) + 1]]

\* Mutant: the fallback takes the default font's data and keeps the font ID asked for.
TextNewKeepsFontId(f, text, descriptor) ==
    LET font_id == IF descriptor.font_id \in DOMAIN f THEN descriptor.font_id
                   ELSE ID_DEFAULT
        font_data == f[font_id]
        positioned_glyphs == SelectSeq(text, LAMBDA c : ~IsControl(c))
        mesh_uniform == [position |-> descriptor.position, overlay_alpha |-> Fin(0)]
    IN  [text |-> [text |-> text,
                   font_id |-> descriptor.font_id,
                   positioned_glyphs_id |-> font_data.next_glyph_id,
                   vertices |-> <<>>,
                   indices |-> <<>>,
                   mesh_uniform |-> mesh_uniform,
                   vertex_buffer |-> <<>>,
                   mesh_uniform_buffer |-> mesh_uniform,
                   vertex_buffer_to_update |-> FALSE,
                   mesh_uniform_buffer_to_update |-> FALSE],
         fonts |-> [f EXCEPT ![font_id] = AddGlyphs(@, positioned_glyphs)],
         log |-> IF descriptor.font_id \in DOMAIN f THEN "none" ELSE "warn"]

\* Text::new: the text created, the fonts left and the level of the message logged.
\* A font ID that is not loaded falls back to the default font with a warning;
\* rect_for is asked with font ID 0.
TextNew(f, text, descriptor) ==
    LET font_id == IF descriptor.font_id \in DOMAIN f THEN descriptor.font_id
                   ELSE ID_DEFAULT
        font_data == f[font_id]
        positioned_glyphs == SelectSeq(text, LAMBDA c : ~IsControl(c))
        quads == SelectSeq(positioned_glyphs, LAMBDA g : RectFor(font_data.cache, 0, g))
        vertices == TextVertices(quads)
        mesh_uniform == [position |-> descriptor.position, overlay_alpha |-> Fin(0)]
    IN  [text |-> [text |-> text,
                   font_id |-> font_id,
                   positioned_glyphs_id |-> font_data.next_glyph_id,
                   vertices |-> vertices,
                   indices |-> TextIndices(Len(vertices) \div 4),
                   mesh_uniform |-> mesh_uniform,
                   vertex_buffer |-> vertices,
                   mesh_uniform_buffer |-> mesh_uniform,
                   vertex_buffer_to_update |-> FALSE,
                   mesh_uniform_buffer_to_update |-> FALSE],
         fonts |-> [f EXCEPT ![font_id] = AddGlyphs(@, positioned_glyphs)],
         log |-> IF descriptor.font_id \in DOMAIN f THEN "none" ELSE "warn"]

\* Text::set_position
TextSetPosition(t, position) ==
    [t EXCEPT !.mesh_uniform.position = position, !.mesh_uniform_buffer_to_update = TRUE]

\* The write_buffer calls of Text::draw
TextDrawWrites(t) ==
    (IF t.vertex_buffer_to_update
     THEN <<[buffer |-> "vertex_buffer", data |-> t.vertices]>>
     ELSE <<>>)
    \o (IF t.mesh_uniform_buffer_to_update
        THEN <<[buffer |-> "mesh_uniform_buffer", data |-> t.mesh_uniform]>>
        ELSE <<>>)

\* The draw calls of Text::draw
TextDrawCalls(t, font_data) ==
    << [call |-> "bind_data", arg |-> <<1, "mesh_uniform_bind_group">>],
       [call |-> "bind_data", arg |-> <<2, font_data.cache_texture>>],
       [call |-> "set_vertex_buffer", arg |-> <<0, t.vertex_buffer>>],
       [call |-> "set_index_buffer", arg |-> <<t.indices>>],
       [call |-> "draw_indexed", arg |-> <<Len(t.indices)>>] >>

\* Mutant: a draw that treats Reordering as Adding.
CacheOutcomeDrawsReordered(t, font_data, r) ==
    IF r.result \in {"Adding", "Reordering"}
    THEN [font_data |-> [font_data EXCEPT !.cache = r.cache],
          calls |-> TextDrawCalls(t, font_data)]
    ELSE [font_data |-> [font_data EXCEPT !.cache = r.cache, !.enlarge_cache = TRUE],
          calls |-> <<>>]

\* Mutant: a draw whose successful fill clears the enlarge flag.
CacheOutcomeAddingClearsFlag(t, font_data, r) ==
    IF r.result = "Adding"
    THEN [font_data |-> [font_data EXCEPT !.cache = r.cache, !.enlarge_cache = FALSE],
          calls |-> TextDrawCalls(t, font_data)]
    ELSE [font_data |-> [font_data EXCEPT !.cache = r.cache, !.enlarge_cache = TRUE],
          calls |-> <<>>]

\* Text::draw, the match on the result r of cache_queued: the font data left and the
\* draw calls issued
CacheOutcome(t, font_data, r) ==
    IF r.result = "Adding"
    THEN [font_data |-> [font_data EXCEPT !.cache = r.cache],
          calls |-> TextDrawCalls(t, font_data)]
    ELSE [font_data |-> [font_data EXCEPT !.cache = r.cache, !.enlarge_cache = TRUE],
          calls |-> <<>>]

\* Mutant: the pipeline test made after the two uploads.
TextDrawUploadsFirst(t, f, text_pipeline_active) ==
    IF ~text_pipeline_active
    THEN {[text |-> [ApplyWrites(t, TextDrawWrites(t))
                       EXCEPT !.vertex_buffer_to_update = FALSE,
                              !.mesh_uniform_buffer_to_update = FALSE],
           fonts |-> f, writes |-> TextDrawWrites(t), calls |-> <<>>,
           cached_by |-> "None", log |-> "none"]}
    ELSE
      LET writes == TextDrawWrites(t)
          drawn == [ApplyWrites(t, writes) EXCEPT !.vertex_buffer_to_update = FALSE,
                                                   !.mesh_uniform_buffer_to_update = FALSE]
          missing == [text |-> drawn, fonts |-> f, writes |-> writes, calls |-> <<>>,
                      cached_by |-> "None", log |-> "err"]
      IN  IF t.font_id \notin DOMAIN f THEN {missing}
          ELSE IF t.positioned_glyphs_id \notin DOMAIN f[t.font_id].positioned_glyphs
          THEN {missing}
          ELSE
            LET font_data == f[t.font_id]
                queued == QueueGlyphs(font_data.cache, t.font_id,
                                      font_data.positioned_glyphs[t.positioned_glyphs_id])
            IN  {[text |-> drawn,
                  fonts |-> [f EXCEPT ![t.font_id] = CacheOutcome(drawn, font_data, r).font_data],
                  writes |-> writes,
                  calls |-> CacheOutcome(drawn, font_data, r).calls,
                  cached_by |-> r.result,
                  log |-> IF r.result = "Adding" THEN "none" ELSE "warn"] : r \in CacheQueued(queued)}

\* Text::draw under the active pipeline given: the possible outcomes, each with the
\* text and fonts left, the buffer writes and draw calls issued and the result of the
\* cache fill ("None" when there was no fill) and the level of the message logged.
TextDraw(t, f, text_pipeline_active) ==
    IF ~text_pipeline_active
    THEN {[text |-> t, fonts |-> f, writes |-> <<>>, calls |-> <<>>, cached_by |-> "None",
           log |-> "none"]}
    ELSE
      LET writes == TextDrawWrites(t)
          drawn == [ApplyWrites(t, writes) EXCEPT !.vertex_buffer_to_update = FALSE,
                                                   !.mesh_uniform_buffer_to_update = FALSE]
          missing == [text |-> drawn, fonts |-> f, writes |-> writes, calls |-> <<>>,
                      cached_by |-> "None", log |-> "err"]
      IN  IF t.font_id \notin DOMAIN f THEN {missing}
          ELSE IF t.positioned_glyphs_id \notin DOMAIN f[t.font_id].positioned_glyphs
          THEN {missing}
          ELSE
            LET font_data == f[t.font_id]
                queued == QueueGlyphs(font_data.cache, t.font_id,
                                      font_data.positioned_glyphs[t.positioned_glyphs_id])
            IN  {[text |-> drawn,
                  fonts |-> [f EXCEPT ![t.font_id] = CacheOutcome(drawn, font_data, r).font_data],
                  writes |-> writes,
                  calls |-> CacheOutcome(drawn, font_data, r).calls,
                  cached_by |-> r.result,
                  log |-> IF r.result = "Adding" THEN "none" ELSE "warn"] : r \in CacheQueued(queued)}

(***************************************************************************)
(* Spec: one Animated<f32> driven by arbitrary set_target and update calls *)
(***************************************************************************)
\* Number of set_target calls explored.
MaxRetargets == 2
\* How far below zero update calls with a negative delta may drive elapsed_time.
MaxRewind == 200
\* Saturation of the bookkeeping: cumulative delta and number of updates.
MaxCum == 1250
MaxCount == 4

\* Durations given to Animated::new, deltas given to update, values and targets.
Durations == {-100, 0, 200, 1000}
Deltas == {-100, 0, 100, 250}
Values == {0, 100}

Min(a, b) == IF a <= b THEN a ELSE b
Max(a, b) == IF a >= b THEN a ELSE b

\* Bookkeeping restarted by new and by set_target: the value current had then (c0),
\* whether the animation was in progress then (prog), the number of updates since
\* (n), their cumulative delta (cum) and their least and greatest delta (lo, hi);
\* k counts the set_target calls.
HistStart(a, k) ==
    [c0 |-> a.current, prog |-> ~Complete(a), n |-> 0, cum |-> 0, lo |-> 0, hi |-> 0,
     k |-> k]

HistUpdate(h, dt) ==
    [h EXCEPT !.n = Min(h.n + 1, MaxCount),
              !.cum = Max(-MaxCum, Min(h.cum + dt, MaxCum)),
              !.lo = IF h.n = 0 THEN dt ELSE Min(h.lo, dt),
              !.hi = IF h.n = 0 THEN dt ELSE Max(h.hi, dt)]

ButtonIdle == button = <<>> /\ bgpu = <<>> /\ bev = <<>>

AnimIdle == anim = <<>> /\ hist = <<>> /\ last = <<>>

SpriteIdle == sprite = <<>> /\ sframe = <<>>

TextIdle == texts = <<>> /\ fonts = <<>> /\ tframe = <<>>

AnimInit ==
    /\ \E c \in Values, d \in Durations : anim = AnimatedNew(<<Fin(c)>>, d)
    /\ hist = HistStart(anim, 0)
    /\ last = [op |-> "new", arg |-> 0]
    /\ ButtonIdle
    /\ SpriteIdle
    /\ TextIdle

AnimSetTarget(t) ==
    /\ hist.k < MaxRetargets
    /\ anim' = SetTarget(anim, <<Fin(t)>>)
    /\ hist' = HistStart(anim, hist.k + 1)
    /\ last' = [op |-> "set_target", arg |-> t]
    /\ UNCHANGED <<button, bgpu, bev, sprite, sframe, textVars>>

AnimUpdate(dt) ==
    /\ anim.elapsed_time + dt >= -MaxRewind
    /\ anim' = Update(anim, dt)
    /\ hist' = HistUpdate(hist, dt)
    /\ last' = [op |-> "update", arg |-> dt]
    /\ UNCHANGED <<button, bgpu, bev, sprite, sframe, textVars>>

Init == AnimInit

Next ==
    \/ \E t \in Values : AnimSetTarget(t)
    \/ \E dt \in Deltas : AnimUpdate(dt)

Spec == Init /\ [][Next]_vars

(***************************************************************************)
(* SpecButton: one Button driven by events, update and draw calls          *)
(***************************************************************************)
\* Number of events delivered to consume_event.
MaxEvents == 4

\* Arguments of Button::new: the position and size the application uses, and a
\* size that is not a number.
ButtonPositions == {<<Fin(350), Fin(250)>>, <<NaN, NaN>>}
ButtonSizes == {<<Fin(100), Fin(100)>>, <<NaN, NaN>>}

\* Cursor positions: inside the button, on its far corner, outside.
Cursors == {<<Fin(400), Fin(300)>>, <<Fin(450), Fin(350)>>, <<Fin(0), Fin(0)>>}

Events ==
    {[type |-> "CursorMoved", position |-> c] : c \in Cursors}
    \cup {[type |-> "MouseInput", state |-> st, button |-> mb] :
            st \in {"Pressed", "Released"}, mb \in {"Left", "Right"}}
    \cup {[type |-> "Focused"]}

\* Frame times given to Button::update, in milliseconds.
FrameDeltas == {0, 50, 100}

IsLeft(event, state) ==
    event.type = "MouseInput" /\ event.button = "Left" /\ event.state = state

\* Bookkeeping of the events: n counts the delivered events; event is the last
\* event delivered; press is the number of
\* left presses delivered minus the left releases delivered; cross is the number of
\* consumed cursor moves onto the button minus the consumed moves off it; click is
\* the number of consumed left presses minus the consumed left releases; presses is
\* the number of consumed left presses.
EventCount(e, event, b, r) ==
    [n |-> e.n + 1,
     last |-> "consume_event",
     event |-> event,
     event_consumed |-> r.event_consumed,
     press |-> e.press + (IF IsLeft(event, "Pressed") THEN 1 ELSE 0)
                       - (IF IsLeft(event, "Released") THEN 1 ELSE 0),
     cross |-> e.cross
               + (IF r.event_consumed /\ event.type = "CursorMoved"
                  THEN (IF CursorOnButton(b, event.position) THEN 1 ELSE -1) ELSE 0),
     click |-> e.click
               + (IF r.event_consumed /\ IsLeft(event, "Pressed") THEN 1 ELSE 0)
               - (IF r.event_consumed /\ IsLeft(event, "Released") THEN 1 ELSE 0),
     presses |-> e.presses
               + (IF r.event_consumed /\ IsLeft(event, "Pressed") THEN 1 ELSE 0)]

ButtonInit ==
    /\ \E p \in ButtonPositions, sz \in ButtonSizes : button = ButtonNew(p, sz)
    /\ bgpu = ButtonBuffers(button)
    /\ bev = [n |-> 0, last |-> "new", event |-> [type |-> "None"],
              event_consumed |-> FALSE,
              press |-> 0, cross |-> 0, click |-> 0, presses |-> 0]
    /\ AnimIdle
    /\ SpriteIdle
    /\ TextIdle

ButtonConsumeEvent(event) ==
    /\ bev.n < MaxEvents
    /\ LET r == ConsumeEvent(button, event)
       IN /\ button' = r.button
          /\ bev' = EventCount(bev, event, button, r)
    /\ UNCHANGED <<bgpu, anim, hist, last, sprite, sframe, textVars>>

ButtonUpdateStep(dt) ==
    /\ button' = ButtonUpdate(button, dt)
    /\ bev' = [bev EXCEPT !.last = "update"]
    /\ UNCHANGED <<bgpu, anim, hist, last, sprite, sframe, textVars>>

ButtonDrawStep ==
    /\ button' = ButtonDraw(button)
    /\ bgpu' = [ApplyWrites(bgpu, ButtonDrawWrites(button))
                  EXCEPT !.writes = ButtonDrawWrites(button)]
    /\ bev' = [bev EXCEPT !.last = "draw"]
    /\ UNCHANGED <<anim, hist, last, sprite, sframe, textVars>>

ButtonNext ==
    \/ \E event \in Events : ButtonConsumeEvent(event)
    \/ \E dt \in FrameDeltas : ButtonUpdateStep(dt)
    \/ ButtonDrawStep

SpecButton == ButtonInit /\ [][ButtonNext]_vars

\* ---------------------------------------------------------------------------
\* Specification: a Button in the frame loop
\* ---------------------------------------------------------------------------

\* Frame times > 0 given to Button::update by the loop, in milliseconds.
LoopDeltas == {d \in FrameDeltas : d > 0}

LoopUpdate == \E dt \in LoopDeltas : ButtonUpdateStep(dt)

LoopNext ==
    \/ \E event \in Events : ButtonConsumeEvent(event)
    \/ LoopUpdate
    \/ ButtonDrawStep

\* The step is a call of Button::update, seen in the bookkeeping alone.
UpdateCalled == bev' = [bev EXCEPT !.last = "update"]

\* The step is a call of Button::draw, seen in the bookkeeping alone.
DrawCalled == bev' = [bev EXCEPT !.last = "draw"]

\* App::update and the draw of the frame are called again and again: an update
\* follows a draw or an event, a draw follows an update or an event. Events
\* arrive when they arrive, and at most MaxEvents of them.
SpecButtonLoop ==
    ButtonInit /\ [][LoopNext]_vars /\ WF_bev(UpdateCalled) /\ WF_bev(DrawCalled)

(***************************************************************************)
(* SpecSprite: one Sprite driven by its setters and draw calls             *)
(***************************************************************************)
SpritePositions == {<<Fin(0), Fin(0)>>, <<Fin(10), Fin(20)>>}
SpriteSizes == {<<Fin(100), Fin(100)>>, <<Fin(50), Fin(60)>>}
SpriteAlphas == {Fin(0), Norm(1, 2)}
\* The texture IDs a sprite may name: none, the hamburger icon, one never loaded.
SpriteTextureIds == {<<>>, <<ID_HAMBURGER>>, <<3>>}
\* The texture IDs looked up through Manager::get_texture_or_default.
LookupIds == {ID_EMPTY, ID_HAMBURGER, 3}

\* The outcomes of start-up: Context::new and Manager::new with every result of the
\* calls they make.
Startups ==
    {ContextNew(failure, empty_tex, hamburger_tex) :
       failure \in ContextFailures,
       empty_tex \in ContextFromBytesResults, hamburger_tex \in ContextFromBytesResults}
    \cup {ManagerNew(text_handler, empty_image, from_image) :
            text_handler \in BOOLEAN, empty_image \in BOOLEAN,
            from_image \in FromImageResults}

\* The last call was not Context::render.
NoRender ==
    [acquire |-> "None", result |-> "None", callbacks |-> 0,
     submitted |-> FALSE, presented |-> FALSE, calls |-> <<>>]

SpriteInit ==
    /\ \E p \in SpritePositions, sz \in SpriteSizes, t \in SpriteTextureIds :
         sprite = SpriteNew(p, sz, t)
    /\ \E startup \in Startups, render_pipelines \in RenderPipelineSets :
         sframe = [owner |-> startup.owner,
                   result |-> startup.result,
                   textures |-> startup.textures,
                   render_pipelines |-> IF startup.owner = "Context" /\ startup.result = "Ok"
                                        THEN render_pipelines ELSE {},
                   vertex_buffer |-> sprite.vertices,
                   mesh_uniform_buffer |-> sprite.mesh_uniform,
                   writes |-> <<>>,
                   texture |-> <<>>,
                   lookup |-> 0,
                   draws |-> 0,
                   render |-> NoRender,
                   last |-> "new"]
    /\ AnimIdle
    /\ ButtonIdle
    /\ TextIdle

\* The context was created and no draw has panicked: its sprite can be used.
ContextRunning ==
    sframe.owner = "Context" /\ sframe.result = "Ok" /\ sframe.last # "panic"

SpriteSetOverlayAlphaStep(alpha) ==
    /\ ContextRunning
    /\ sprite' = SpriteSetOverlayAlpha(sprite, alpha)
    /\ sframe' = [sframe EXCEPT !.draws = 0, !.render = NoRender, !.last = "set_overlay_alpha"]
    /\ UNCHANGED <<anim, hist, last, button, bgpu, bev, textVars>>

SpriteSetPositionStep(position) ==
    /\ ContextRunning
    /\ sprite' = SpriteSetPosition(sprite, position)
    /\ sframe' = [sframe EXCEPT !.draws = 0, !.render = NoRender, !.last = "set_position"]
    /\ UNCHANGED <<anim, hist, last, button, bgpu, bev, textVars>>

SpriteSetSizeStep(size) ==
    /\ ContextRunning
    /\ sprite' = SpriteSetSize(sprite, size)
    /\ sframe' = [sframe EXCEPT !.draws = 0, !.render = NoRender, !.last = "set_size"]
    /\ UNCHANGED <<anim, hist, last, button, bgpu, bev, textVars>>

\* Sprite::draw; draws counts the consecutive draws made since the last setter call
\* (up to 2). The uploads come before the texture lookup; a lookup that panics ends
\* the program ("panic").
SpriteDrawStep ==
    /\ ContextRunning
    /\ sprite' = SpriteDraw(sprite)
    /\ LET texture == TextureOrDefault(sframe.textures, sprite.texture_id)
       IN  sframe' = [ApplyWrites(sframe, SpriteDrawWrites(sprite))
                        EXCEPT !.writes = SpriteDrawWrites(sprite),
                               !.texture = texture,
                               !.lookup = sprite.texture_id,
                               !.draws = IF sframe.last = "draw" THEN 2 ELSE 1,
                               !.render = NoRender,
                               !.last = IF texture = <<>> THEN "panic" ELSE "draw"]
    /\ UNCHANGED <<anim, hist, last, button, bgpu, bev, textVars>>

\* Context::render with a draw callback that draws the sprite, the pipelines of
\* the context iterated in the given order. A frame that is acquired runs the
\* callback once for each pipeline (Sprite::draw, as in SpriteDrawStep: the draws
\* after the first find both flags clear), and a panic in the first callback ends
\* the program before the submit; a frame that is not acquired ends the call.
RenderStep(acquire, order) ==
    /\ ContextRunning
    /\ LET r == ContextRender(acquire, order)
           texture == TextureOrDefault(sframe.textures, sprite.texture_id)
       IN  IF r.callbacks = 0
           THEN /\ sframe' = [sframe EXCEPT !.render = r, !.last = "render"]
                /\ sprite' = sprite
           ELSE /\ sprite' = SpriteDraw(sprite)
                /\ sframe' = [ApplyWrites(sframe, SpriteDrawWrites(sprite))
                                EXCEPT !.writes = SpriteDrawWrites(sprite),
                                       !.texture = texture,
                                       !.lookup = sprite.texture_id,
                                       !.draws = IF sframe.last = "draw" THEN 2 ELSE 1,
                                       !.render = IF texture = <<>>
                                                  THEN [r EXCEPT !.result = "panic",
                                                                 !.callbacks = 1,
                                                                 !.submitted = FALSE,
                                                                 !.presented = FALSE,
                                                                 !.calls = PipelineCalls(order[1])]
                                                  ELSE r,
                                       !.last = IF texture = <<>> THEN "panic" ELSE "draw"]
    /\ UNCHANGED <<anim, hist, last, button, bgpu, bev, textVars>>

\* Manager::get_texture_or_default on a manager that Manager::new returned
GetTextureOrDefaultStep(id) ==
    /\ sframe.owner = "Manager" /\ sframe.result = "Ok" /\ sframe.last # "panic"
    /\ LET texture == GetTextureOrDefault(sframe.textures, id)
       IN  sframe' = [sframe EXCEPT !.texture = texture,
                                    !.lookup = id,
                                    !.last = IF texture = <<>> THEN "panic"
                                             ELSE "get_texture_or_default"]
    /\ UNCHANGED <<sprite, anim, hist, last, button, bgpu, bev, textVars>>

SpriteNext ==
    \/ \E alpha \in SpriteAlphas : SpriteSetOverlayAlphaStep(alpha)
    \/ \E position \in SpritePositions : SpriteSetPositionStep(position)
    \/ \E size \in SpriteSizes : SpriteSetSizeStep(size)
    \/ SpriteDrawStep
    \/ \E acquire \in AcquireResults, order \in IterOrders(sframe.render_pipelines) :
         RenderStep(acquire, order)
    \/ \E id \in LookupIds : GetTextureOrDefaultStep(id)

SpecSprite == SpriteInit /\ [][SpriteNext]_vars

(***************************************************************************)
(* SpecText: texts created, moved and drawn, and the caches resized        *)
(***************************************************************************)
\* Number of Text objects created.
MaxTexts == 2
\* Largest cache width and height explored.
MaxCacheSize == 4096

\* The strings given to Text::new.
TextStrings ==
    {<<"a">>, <<"a", "e">>, <<"a", "\n", "b", "c", "d">>, <<"a", "b", "c", "d", "e">>}
\* The font IDs asked for: the default font and one that is not loaded.
TextFontIds == {ID_DEFAULT, 7}
TextPositions == {<<Fin(0), Fin(0)>>, <<Fin(10), Fin(20)>>}

TextInit ==
    /\ texts = <<>>
    /\ fonts = TextHandlerNew
    /\ tframe = [last |-> "new", text |-> 0, text_pipeline_active |-> FALSE,
                 writes |-> <<>>, calls |-> <<>>, cached_by |-> "None", result |-> "Ok",
                 log |-> "none", requested |-> 0]
    /\ AnimIdle
    /\ ButtonIdle
    /\ SpriteIdle

TextNewStep(text, font_id, position) ==
    /\ Len(texts) < MaxTexts
    /\ LET r == TextNew(fonts, text, [font_id |-> font_id, position |-> position])
       IN /\ texts' = Append(texts, r.text)
          /\ fonts' = r.fonts
    /\ tframe' = [last |-> "new", text |-> Len(texts) + 1, text_pipeline_active |-> FALSE,
                  writes |-> <<>>, calls |-> <<>>, cached_by |-> "None", result |-> "Ok",
                  log |-> TextNew(fonts, text, [font_id |-> font_id, position |-> position]).log,
                  requested |-> font_id]
    /\ UNCHANGED <<anim, hist, last, button, bgpu, bev, sprite, sframe>>

TextSetPositionStep(i, position) ==
    /\ i \in DOMAIN texts
    /\ texts' = [texts EXCEPT ![i] = TextSetPosition(@, position)]
    /\ tframe' = [last |-> "set_position", text |-> i, text_pipeline_active |-> FALSE,
                  writes |-> <<>>, calls |-> <<>>, cached_by |-> "None", result |-> "Ok",
                  log |-> "none", requested |-> 0]
    /\ UNCHANGED <<fonts, anim, hist, last, button, bgpu, bev, sprite, sframe>>

TextDrawStep(i, text_pipeline_active) ==
    /\ i \in DOMAIN texts
    /\ \E d \in TextDraw(texts[i], fonts, text_pipeline_active) :
         /\ texts' = [texts EXCEPT ![i] = d.text]
         /\ fonts' = d.fonts
         /\ tframe' = [last |-> "draw", text |-> i,
                       text_pipeline_active |-> text_pipeline_active,
                       writes |-> d.writes, calls |-> d.calls,
                       cached_by |-> d.cached_by, result |-> "Ok",
                       log |-> d.log, requested |-> 0]
    /\ UNCHANGED <<anim, hist, last, button, bgpu, bev, sprite, sframe>>

ResizeCachesStep(created) ==
    /\ fonts[ID_DEFAULT].cache_texture.size.width * 2 <= MaxCacheSize
    /\ LET r == ResizeCaches(fonts, created)
       IN /\ fonts' = r.fonts
          /\ tframe' = [last |-> "resize_caches", text |-> 0,
                        text_pipeline_active |-> FALSE,
                        writes |-> <<>>, calls |-> <<>>, cached_by |-> "None",
                        result |-> r.result,
                        log |-> IF r.result = "Ok" THEN "none" ELSE "err",
                        requested |-> 0]
    /\ UNCHANGED <<texts, anim, hist, last, button, bgpu, bev, sprite, sframe>>

TextNext ==
    \/ \E text \in TextStrings, font_id \in TextFontIds, position \in TextPositions :
         TextNewStep(text, font_id, position)
    \/ \E i \in 1..MaxTexts, position \in TextPositions : TextSetPositionStep(i, position)
    \/ \E i \in 1..MaxTexts, active \in BOOLEAN : TextDrawStep(i, active)
    \/ \E created \in FromBytesResults : ResizeCachesStep(created)

SpecText == TextInit /\ [][TextNext]_vars

(***************************************************************************)
(* SpecFrames: a frame loop over texts created beforehand; every frame     *)
(* calls resize_caches and then draws each text under the text pipeline    *)
(***************************************************************************)
RECURSIVE CreateTexts(_)
\* Text::new called for each of the strings in turn on a new TextHandler
CreateTexts(strings) ==
    IF strings = <<>> THEN [texts |-> <<>>, fonts |-> TextHandlerNew]
    ELSE LET before == CreateTexts(SubSeq(strings, 1, Len(strings) - 1))
             r == TextNew(before.fonts, strings[Len(strings)],
                          [font_id |-> ID_DEFAULT, position |-> <<Fin(0), Fin(0)>>])
         IN  [texts |-> Append(before.texts, r.text), fonts |-> r.fonts]

\* pc is the text the frame draws next, 0 when the frame starts with resize_caches.
FramesInit ==
    /\ \E n \in 1..MaxTexts : \E strings \in [1..n -> TextStrings] :
         /\ texts = CreateTexts(strings).texts
         /\ fonts = CreateTexts(strings).fonts
    /\ tframe = [last |-> "new", text |-> 0, text_pipeline_active |-> FALSE,
                 writes |-> <<>>, calls |-> <<>>, cached_by |-> "None", result |-> "Ok",
                 log |-> "none", requested |-> 0,
                 pc |-> 0]
    /\ AnimIdle
    /\ ButtonIdle
    /\ SpriteIdle

FrameResizeCachesStep ==
    /\ tframe.pc = 0
    /\ fonts[ID_DEFAULT].enlarge_cache =>
         fonts[ID_DEFAULT].cache_texture.size.width * 2 <= MaxCacheSize
    /\ \E created \in FromBytesResults :
         LET r == ResizeCaches(fonts, created)
         IN /\ fonts' = r.fonts
            /\ tframe' = [last |-> "resize_caches", text |-> 0,
                          text_pipeline_active |-> FALSE,
                          writes |-> <<>>, calls |-> <<>>, cached_by |-> "None",
                          result |-> r.result,
                          log |-> IF r.result = "Ok" THEN "none" ELSE "err",
                          requested |-> 0, pc |-> 1]
    /\ UNCHANGED <<texts, anim, hist, last, button, bgpu, bev, sprite, sframe>>

FrameDrawStep ==
    /\ tframe.pc \in DOMAIN texts
    /\ \E d \in TextDraw(texts[tframe.pc], fonts, TRUE) :
         /\ texts' = [texts EXCEPT ![tframe.pc] = d.text]
         /\ fonts' = d.fonts
         /\ tframe' = [last |-> "draw", text |-> tframe.pc, text_pipeline_active |-> TRUE,
                       writes |-> d.writes, calls |-> d.calls,
                       cached_by |-> d.cached_by, result |-> "Ok",
                       log |-> d.log, requested |-> 0,
                       pc |-> IF tframe.pc = Len(texts) THEN 0 ELSE tframe.pc + 1]
    /\ UNCHANGED <<anim, hist, last, button, bgpu, bev, sprite, sframe>>

FramesNext ==
    \/ FrameResizeCachesStep
    \/ FrameDrawStep

\* The loop never stops: a frame follows a frame.
SpecFrames == FramesInit /\ [][FramesNext]_vars /\ WF_vars(FramesNext)

\* ---------------------------------------------------------------------------
\* Specification: the mesh Text::new builds from the rects rect_for finds
\* ---------------------------------------------------------------------------

\* The most glyphs of a text that rect_for finds in the cache.
MaxQuads == 4

\* The glyphs rect_for can find.
QuadGlyphs == {"a", "b", "c"}

RECURSIVE SeqsUpTo(_, _)
\* The sequences over the set of at most n elements.
SeqsUpTo(set, n) ==
    IF n = 0 THEN {<<>>}
    ELSE LET shorter == SeqsUpTo(set, n - 1)
         IN shorter \cup {Append(s, x) : s \in {t \in shorter : Len(t) = n - 1}, x \in set}

\* The glyphs of a text for which rect_for returned a rect, before the mesh is built.
MeshInit ==
    /\ \E quads \in SeqsUpTo(QuadGlyphs, MaxQuads) :
         tframe = [last |-> "rect_for", quads |-> quads, vertices |-> <<>>, indices |-> <<>>]
    /\ texts = <<>>
    /\ fonts = <<>>
    /\ AnimIdle
    /\ ButtonIdle
    /\ SpriteIdle

\* Text::new, from the collected vertices to the index list
BuildMeshStep ==
    /\ tframe.last = "rect_for"
    /\ LET vertices == TextVertices(tframe.quads)
       IN tframe' = [tframe EXCEPT !.last = "new",
                                   !.vertices = vertices,
                                   !.indices = TextIndices(Len(vertices) \div 4)]
    /\ UNCHANGED <<texts, fonts, anim, hist, last, button, bgpu, bev, sprite, sframe>>

MeshNext == BuildMeshStep

SpecMesh == MeshInit /\ [][MeshNext]_vars

(***************************************************************************)
(* Claims about Animated, checked under Spec                               *)
(***************************************************************************)
\* Every update since the last set_target (or new) had a delta >= 0, there was at
\* least one, and their deltas add up to the duration or more.
DurationReached(a, h) == h.n >= 1 /\ h.lo >= 0 /\ h.cum >= a.duration

\* C1: once the updates made since the last set_target, all with dt >= 0, add up to
\* the duration or more, complete() is true; every further update(dt) with dt >= 0
\* keeps it true and leaves current unchanged.
C1_ExactCompletion ==
    [][/\ DurationReached(anim', hist') => Complete(anim')
       /\ (DurationReached(anim, hist) /\ last'.op = "update" /\ last'.arg >= 0)
            => (anim'.current = anim.current /\ Complete(anim'))]_vars

C1_Witness ==
    /\ DurationReached(anim, hist)
    /\ anim.duration = 1000
    /\ hist.n = MaxCount
    /\ hist.c0 # anim.target
    /\ hist.prog
    /\ Complete(anim)

\* C2 as stated: elapsed_time <= duration in every reachable state, whatever the
\* duration given to new.
C2_ElapsedWithinDuration == anim.elapsed_time <= anim.duration

\* C2 amended: for a duration >= 0 given to new, elapsed_time <= duration in every
\* reachable state.
C2_ElapsedWithinNonNegDuration ==
    anim.duration >= 0 => anim.elapsed_time <= anim.duration

C2_Witness ==
    /\ anim.duration = 200
    /\ last.op = "update"
    /\ hist.n = 2
    /\ hist.cum = 350
    /\ anim.elapsed_time = anim.duration

RetargetKeepsValue ==
    /\ (last'.op = "set_target" /\ ~Complete(anim))
         => (/\ anim'.target = <<Fin(last'.arg)>>
             /\ anim'.elapsed_time = 0
             /\ anim'.current = anim.current
             /\ anim'.duration = anim.duration)
    /\ (last.op = "set_target" /\ hist.prog /\ last'.op = "update" /\ last'.arg = 0)
         => (/\ anim'.current = anim.current
             /\ Complete(anim') <=> TEq(anim.target, anim.current))

\* C4 as stated: for every duration.
C4_RetargetRestartsTimer == [][RetargetKeepsValue]_vars

\* C4 amended: for a duration > 0.
C4_RetargetRestartsTimerPositive == [][anim.duration > 0 => RetargetKeepsValue]_vars

C4_Witness ==
    /\ anim.duration > 0
    /\ hist.prog
    /\ hist.n = 1
    /\ last = [op |-> "update", arg |-> 0]
    /\ IsFinite(hist.c0[1])
    /\ hist.c0 # <<Fin(0)>>
    /\ hist.c0 # <<Fin(100)>>
    /\ anim.current = hist.c0
    /\ ~Complete(anim)

\* The scenario of C5: duration 1000 ms, from 0 to 100, three update(250 ms) calls.
ThreeQuarters ==
    /\ anim.duration = 1000
    /\ hist.c0 = <<Fin(0)>>
    /\ anim.target = <<Fin(100)>>
    /\ hist.n = 3
    /\ hist.lo = 250
    /\ hist.hi = 250

\* C5 as stated: after the three updates current differs from the linear value 75.
C5_NotLinear == ThreeQuarters => anim.current # <<Fin(75)>>

\* C5 amended: after the three updates current is the linear value 75.
C5_Linear == ThreeQuarters => anim.current = <<Fin(75)>>

C5_Witness == ThreeQuarters /\ anim.elapsed_time = 750 /\ ~Complete(anim)

\* The scenario of C6 after n update(100 ms) calls: duration 200 ms, from 0 to 100.
HalfSteps(n) ==
    /\ anim.duration = 200
    /\ hist.c0 = <<Fin(0)>>
    /\ anim.target = <<Fin(100)>>
    /\ hist.n = n
    /\ hist.lo = 100
    /\ hist.hi = 100

\* C6: the first update(100 ms) gives current = 50 with complete() false, and the
\* second one takes the snap branch (remaining 100 <= 100) and gives current = 100
\* with complete() true.
C6_TwoHalfSteps ==
    /\ HalfSteps(1) =>
         /\ anim.current = <<Fin(50)>>
         /\ ~Complete(anim)
         /\ anim.duration - anim.elapsed_time = 100
    /\ HalfSteps(2) =>
         /\ anim.current = <<Fin(100)>>
         /\ Complete(anim)
         /\ anim.elapsed_time = anim.duration

C6_Witness == HalfSteps(2) /\ Complete(anim)

(***************************************************************************)
(* Claims about the widgets' buffer uploads                                *)
(***************************************************************************)
\* The write_buffer calls a draw owes: one per buffer whose flag it finds set,
\* carrying that buffer's whole CPU snapshot, and none for a flag it finds clear.
OwedWrites(w) ==
    (IF w.vertex_buffer_to_update
     THEN <<[buffer |-> "vertex_buffer", data |-> w.vertices]>>
     ELSE <<>>)
    \o (IF w.mesh_uniform_buffer_to_update
        THEN <<[buffer |-> "mesh_uniform_buffer", data |-> w.mesh_uniform]>>
        ELSE <<>>)

ButtonDrawUploads == (bev # <<>> /\ bev'.last = "draw") => bgpu'.writes = OwedWrites(button)

SpriteDrawUploads ==
    (sframe # <<>> /\ sframe'.last = "draw") => sframe'.writes = OwedWrites(sprite)

TextDrawUploads ==
    (tframe # <<>> /\ tframe'.last = "draw") =>
        tframe'.writes = OwedWrites(texts[tframe'.text])

\* C7: for every widget type and each of its two tracked buffers, a draw that finds
\* the buffer's dirty flag set issues exactly one write_buffer carrying the complete
\* current CPU snapshot of that buffer, and a draw that finds it clear issues none.
C7_DrawUploadsSnapshot ==
    [][ButtonDrawUploads /\ SpriteDrawUploads /\ TextDrawUploads]_vars

\* C8: the draw that follows a setter finds the flag that setter marked set,
\* uploads that buffer and clears the flag; a draw that follows a draw finds both
\* flags clear and uploads nothing.
C8_MarkUploadsOnce ==
    [][sframe'.last = "draw" =>
         /\ sframe.last \in {"set_position", "set_overlay_alpha"} =>
              /\ sprite.mesh_uniform_buffer_to_update
              /\ \E i \in DOMAIN sframe'.writes :
                   sframe'.writes[i] =
                     [buffer |-> "mesh_uniform_buffer", data |-> sprite.mesh_uniform]
         /\ sframe.last = "set_size" =>
              /\ sprite.vertex_buffer_to_update
              /\ \E i \in DOMAIN sframe'.writes :
                   sframe'.writes[i] = [buffer |-> "vertex_buffer", data |-> sprite.vertices]
         /\ ~sprite'.mesh_uniform_buffer_to_update
         /\ ~sprite'.vertex_buffer_to_update
         /\ sframe.last = "draw" =>
              /\ ~sprite.mesh_uniform_buffer_to_update
              /\ ~sprite.vertex_buffer_to_update
              /\ sframe'.writes = <<>>]_vars

C8_Witness ==
    /\ sframe.last = "draw"
    /\ sframe.draws = 2
    /\ sframe.writes = <<>>
    /\ sframe.mesh_uniform_buffer.position = <<Fin(10), Fin(20)>>
    /\ sprite.mesh_uniform = sframe.mesh_uniform_buffer
    /\ ~sprite.mesh_uniform_buffer_to_update

(***************************************************************************)
(* Claims about the button's events                                        *)
(***************************************************************************)
\* The overlay alpha target is the one Button::new gave it.
AlphaTargetRestored == button.overlay_alpha.target = <<Fin(0)>>

\* C9 as stated: after any sequence of events with as many pointer-enters as
\* pointer-leaves (cursor moves across the button's boundary) and as many left
\* presses as left releases delivered, the overlay alpha target is its value before
\* the sequence.
C9_BalancedEventsRestoreAlpha == (bev.cross = 0 /\ bev.press = 0) => AlphaTargetRestored

\* C9 amended: counting only the events consume_event consumed (returned true for),
\* after as many enters as leaves and as many presses as releases the overlay alpha
\* target is its value before the sequence.
C9_BalancedConsumedEventsRestoreAlpha ==
    (bev.cross = 0 /\ bev.click = 0) => AlphaTargetRestored

C9_Witness ==
    /\ bev.n = 4
    /\ bev.cross = 0
    /\ bev.click = 0
    /\ bev.presses = 1
    /\ bev.last = "consume_event"
    /\ bev.event_consumed
    /\ ~Complete(button.overlay_alpha)
    /\ AlphaTargetRestored

(***************************************************************************)
(* Claims about the glyph cache                                            *)
(***************************************************************************)
\* The names of the draw calls issued, in order.
CallNames(calls) == [i \in DOMAIN calls |-> calls[i].call]

\* C10: in a Text::draw under the text pipeline that finds its font and its glyph
\* run, the result of the cache fill decides: Adding issues the two bind calls, the
\* vertex and index buffer calls and draw_indexed, and leaves the font's enlarge
\* flag as it was; Reordering or an error sets the flag, issues no draw call, and
\* the draw returns normally.
C10_CacheOutcomeDecides ==
    [][(tframe # <<>> /\ tframe'.last = "draw" /\ tframe'.text_pipeline_active
          /\ tframe'.cached_by # "None") =>
         LET font_id == texts[tframe'.text].font_id
         IN  /\ tframe'.cached_by = "Adding" =>
                  /\ CallNames(tframe'.calls) =
                       <<"bind_data", "bind_data", "set_vertex_buffer",
                         "set_index_buffer", "draw_indexed">>
                  /\ fonts'[font_id].enlarge_cache = fonts[font_id].enlarge_cache
             /\ tframe'.cached_by # "Adding" =>
                  /\ fonts'[font_id].enlarge_cache
                  /\ tframe'.calls = <<>>
                  /\ tframe'.result = "Ok"]_vars

C10_Witness ==
    /\ tframe # <<>>
    /\ tframe.last = "draw"
    /\ tframe.cached_by = "Reordering"
    /\ tframe.calls = <<>>
    /\ fonts[ID_DEFAULT].enlarge_cache
    /\ fonts[ID_DEFAULT].cache_texture.size.width = 2 * InitialCacheSize

\* C11: once a draw has set a font's enlarge flag, the next resize_caches call
\* replaces the font's atlas by one of twice the width and twice the height and its
\* cache by an empty one of the new dimensions, and clears the flag; a resize_caches
\* call that finds the flag clear leaves the font as it is.
C11_ResizeDoublesOnce ==
    [][(tframe # <<>> /\ tframe'.last = "resize_caches") =>
         LET old == fonts[ID_DEFAULT]
             new == fonts'[ID_DEFAULT]
         IN  /\ old.enlarge_cache =>
                  /\ new.cache_texture.size.width = 2 * old.cache_texture.size.width
                  /\ new.cache_texture.size.height = 2 * old.cache_texture.size.height
                  /\ new.cache = [width |-> 2 * old.cache.width,
                                  height |-> 2 * old.cache.height,
                                  cached |-> {}, queue |-> {}]
                  /\ ~new.enlarge_cache
                  /\ tframe'.result = "Ok"
             /\ ~old.enlarge_cache => new = old /\ tframe'.result = "Ok"]_vars

C11_Witness ==
    /\ tframe # <<>>
    /\ tframe.last = "resize_caches"
    /\ tframe.result = "Ok"
    /\ ~fonts[ID_DEFAULT].enlarge_cache
    /\ fonts[ID_DEFAULT].cache_texture.size = [width |-> 2048, height |-> 2048]
    /\ fonts[ID_DEFAULT].cache = [width |-> 2048, height |-> 2048, cached |-> {}, queue |-> {}]

\* The atlas is a square of side 1024 * 2^k.
AtlasIsDoubledSquare ==
    LET size == fonts[ID_DEFAULT].cache_texture.size
    IN  /\ size.width = size.height
        /\ \E k \in 0..20 : size.width = InitialCacheSize * 2^k

\* C12: over any sequence of Text::draw and resize_caches calls the font's atlas
\* starts at 1024 x 1024 with the enlarge flag clear, its width and height never
\* decrease, and they are always 1024 times the same power of two.
C12_AtlasGrowsByDoubling ==
    /\ (fonts[ID_DEFAULT].cache_texture.size = [width |-> 1024, height |-> 1024]
          /\ ~fonts[ID_DEFAULT].enlarge_cache)
    /\ []AtlasIsDoubledSquare
    /\ [][/\ fonts'[ID_DEFAULT].cache_texture.size.width
               >= fonts[ID_DEFAULT].cache_texture.size.width
          /\ fonts'[ID_DEFAULT].cache_texture.size.height
               >= fonts[ID_DEFAULT].cache_texture.size.height]_vars

C12_Witness ==
    /\ tframe # <<>>
    /\ tframe.last = "draw"
    /\ tframe.cached_by = "Adding"
    /\ fonts[ID_DEFAULT].cache_texture.size = [width |-> 4096, height |-> 4096]
    /\ fonts[ID_DEFAULT].cache.width = 4096
    /\ Cardinality(fonts[ID_DEFAULT].cache.cached) = 5

\* C13: a Text::draw that sets the enlarge flag leaves the atlas texture, its
\* dimensions and the cache's dimensions as they are; the flag stays set through
\* every later call that is not resize_caches, and only resize_caches replaces the
\* atlas and clears the flag.
C13_GrowthWaitsForResize ==
    [][(tframe # <<>> /\ tframe'.last # "resize_caches") =>
         LET old == fonts[ID_DEFAULT]
             new == fonts'[ID_DEFAULT]
         IN  /\ new.cache_texture = old.cache_texture
             /\ new.cache.width = old.cache.width
             /\ new.cache.height = old.cache.height
             /\ old.enlarge_cache => new.enlarge_cache]_vars

C13_Witness ==
    /\ tframe # <<>>
    /\ tframe.last = "draw"
    /\ tframe.cached_by = "Adding"
    /\ tframe.calls # <<>>
    /\ fonts[ID_DEFAULT].enlarge_cache
    /\ fonts[ID_DEFAULT].cache_texture.size = [width |-> 2048, height |-> 2048]
    /\ fonts[ID_DEFAULT].cache.width = 2048

\* The frame loop has settled: the enlarge flag is clear and the last draw, if the
\* last call was one, filled the cache by Adding and issued its draw calls.
FrameSettled ==
    /\ ~fonts[ID_DEFAULT].enlarge_cache
    /\ tframe.last = "draw" => tframe.cached_by = "Adding" /\ tframe.calls # <<>>

\* C14: under a frame loop that calls resize_caches and then Text::draw every frame,
\* with texts whose glyphs fit in an atlas of some size 1024 * 2^k, after finitely
\* many frames every cache fill is Adding, the enlarge flag stays clear and the
\* draw calls are issued: overflow does not last for ever.
C14_OverflowRecovers == <>[]FrameSettled

C14_Witness ==
    /\ tframe # <<>>
    /\ tframe.last = "draw"
    /\ tframe.pc = 0
    /\ Len(texts) = 2
    /\ FrameSettled
    /\ fonts[ID_DEFAULT].cache_texture.size.width = 4096
    /\ Cardinality(fonts[ID_DEFAULT].cache.cached) = 5

(***************************************************************************)
(* Claims about Text::new                                                  *)
(***************************************************************************)
\* C15: Text::new with a font ID that is not loaded logs a warning and creates a
\* text whose font_id is ID_DEFAULT and whose glyph run is stored with, and so drawn
\* from, the default font; with the default font loaded it returns a text.
C15_MissingFontFallsBack ==
    [][(tframe # <<>> /\ tframe'.last = "new" /\ tframe'.requested \notin DOMAIN fonts) =>
         LET t == texts'[Len(texts')]
         IN  /\ Len(texts') = Len(texts) + 1
             /\ tframe'.log = "warn"
             /\ t.font_id = ID_DEFAULT
             /\ t.positioned_glyphs_id = fonts[ID_DEFAULT].next_glyph_id
             /\ t.positioned_glyphs_id \in DOMAIN fonts'[ID_DEFAULT].positioned_glyphs
             /\ fonts'[ID_DEFAULT].positioned_glyphs[t.positioned_glyphs_id]
                  = SelectSeq(t.text, LAMBDA c : c # "\n")]_vars

C15_Witness ==
    /\ tframe # <<>>
    /\ tframe.last = "new"
    /\ tframe.requested = 7
    /\ tframe.log = "warn"
    /\ Len(texts) = 2
    /\ texts[2].font_id = ID_DEFAULT
    /\ texts[2].positioned_glyphs_id = 2
    /\ fonts[ID_DEFAULT].positioned_glyphs[2] = <<"a", "b", "c", "d">>

(***************************************************************************)
(* Claims about the texture lookup                                         *)
(***************************************************************************)
\* C16: the texture lookup at draw time never fails: for any texture ID, loaded or
\* not, Sprite::draw and Manager::get_texture_or_default obtain the texture with that
\* ID when it is loaded and the empty texture otherwise, and do not panic.
C16_TextureLookupNeverFails ==
    (sframe # <<>> /\ sframe.last \in {"draw", "get_texture_or_default", "panic"}) =>
        /\ sframe.last # "panic"
        /\ sframe.texture = IF sframe.lookup \in sframe.textures THEN <<sframe.lookup>>
                            ELSE <<ID_EMPTY>>

\* C17: whenever Context::new or Manager::new returns Ok the texture map holds
\* ID_EMPTY, so that no later draw panics on the fallback lookup.
C17_OkStartupHasEmptyTexture ==
    (sframe # <<>> /\ sframe.result = "Ok") =>
        /\ ID_EMPTY \in sframe.textures
        /\ sframe.last # "panic"

(***************************************************************************)
(* Claims about Context::render                                            *)
(***************************************************************************)
\* C18: when the frame cannot be acquired, Context::render returns the error (Lost
\* and Outdated as SurfaceInvalid, OutOfMemory as OutOfMemory, Timeout as
\* GraphicsDeviceNotResponding) and stops the frame: the draw callback is not
\* invoked, no dirty flag is cleared, no buffer is written, nothing is submitted to
\* the queue and nothing is presented.
C18_FailedAcquireStopsFrame ==
    [][(sframe # <<>> /\ sframe'.render.acquire \notin {"None", "Ok"}) =>
         /\ sframe'.render.acquire \in {"Lost", "Outdated"} =>
              sframe'.render.result = "SurfaceInvalid"
         /\ sframe'.render.acquire = "OutOfMemory" =>
              sframe'.render.result = "OutOfMemory"
         /\ sframe'.render.acquire = "Timeout" =>
              sframe'.render.result = "GraphicsDeviceNotResponding"
         /\ sframe'.render.callbacks = 0
         /\ ~sframe'.render.submitted
         /\ ~sframe'.render.presented
         /\ sprite' = sprite
         /\ sframe'.vertex_buffer = sframe.vertex_buffer
         /\ sframe'.mesh_uniform_buffer = sframe.mesh_uniform_buffer
         /\ sframe'.last = "render"]_vars

C18_Witness ==
    /\ sframe # <<>>
    /\ sframe.last = "render"
    /\ sframe.render.acquire = "Timeout"
    /\ sframe.render.result = "GraphicsDeviceNotResponding"
    /\ sframe.render.callbacks = 0
    /\ sprite.mesh_uniform_buffer_to_update
    /\ sprite.vertex_buffer_to_update
    /\ sframe.mesh_uniform_buffer # sprite.mesh_uniform

\* ---------------------------------------------------------------------------
\* Degenerate durations
\* ---------------------------------------------------------------------------

\* The step is an update of an Animated whose duration is zero or negative.
DegenerateUpdate == anim.duration <= 0 /\ last'.op = "update"

\* The update is the first one after a set_target and its delta is not negative.
FirstUpdateAfterRetarget == last.op = "set_target" /\ last'.arg >= 0

\* C19: with a zero or negative duration, the first update(dt), dt >= 0, after
\* any set_target leaves current = target exactly, and no update ever stores a
\* NaN or an infinite value into current.
C19_DegenerateDurationsAbsorbed ==
    [][DegenerateUpdate =>
         /\ FirstUpdateAfterRetarget => anim'.current = anim'.target
         /\ \A i \in DOMAIN anim'.current : IsFinite(anim'.current[i])]_vars

\* ---------------------------------------------------------------------------
\* Button::update
\* ---------------------------------------------------------------------------

\* The step is a Button::update.
IsButtonUpdate == button # <<>> /\ bev'.last = "update"

\* The fields of the button that Button::update derives from its position.
PositionAdvanced(dt) ==
    /\ button'.position = Update(button.position, dt)
    /\ button'.mesh_uniform.position = button'.position.current
    /\ button'.mesh_uniform_buffer_to_update

PositionLeft ==
    /\ button'.position = button.position
    /\ button'.mesh_uniform.position = button.mesh_uniform.position

SizeAdvanced(dt) ==
    /\ button'.size = Update(button.size, dt)
    /\ button'.vertices = ComputeVertices(button'.size.current)
    /\ button'.vertex_buffer_to_update

SizeLeft ==
    /\ button'.size = button.size
    /\ button'.vertices = button.vertices
    /\ button'.vertex_buffer_to_update = button.vertex_buffer_to_update

AlphaAdvanced(dt) ==
    /\ button'.overlay_alpha = Update(button.overlay_alpha, dt)
    /\ button'.mesh_uniform.overlay_alpha = button'.overlay_alpha.current[1]
    /\ button'.mesh_uniform_buffer_to_update

AlphaLeft ==
    /\ button'.overlay_alpha = button.overlay_alpha
    /\ button'.mesh_uniform.overlay_alpha = button.mesh_uniform.overlay_alpha

\* C20: Button::update(dt) advances exactly the properties whose Animated is
\* not complete and marks their flag (position and overlay alpha the
\* mesh-uniform flag, size the vertex flag); a complete property is not
\* advanced and marks nothing, so update on a settled button changes no field.
C20_UpdateAdvancesIncompleteOnly ==
    [][IsButtonUpdate =>
         \E dt \in FrameDeltas :
            /\ IF Complete(button.position) THEN PositionLeft ELSE PositionAdvanced(dt)
            /\ IF Complete(button.size) THEN SizeLeft ELSE SizeAdvanced(dt)
            /\ IF Complete(button.overlay_alpha) THEN AlphaLeft ELSE AlphaAdvanced(dt)
            /\ (Complete(button.position) /\ Complete(button.overlay_alpha)) =>
                 button'.mesh_uniform_buffer_to_update = button.mesh_uniform_buffer_to_update
            /\ (Complete(button.position) /\ Complete(button.size)
                /\ Complete(button.overlay_alpha)) => button' = button
            /\ button'.hovered = button.hovered
            /\ button'.pressed = button.pressed]_vars

\* An update has advanced the overlay alpha alone, half way to its target,
\* marking the mesh-uniform flag and leaving the vertex flag clear.
C20_Witness ==
    /\ button # <<>>
    /\ bev.last = "update"
    /\ Complete(button.position)
    /\ Complete(button.size)
    /\ ~Complete(button.overlay_alpha)
    /\ button.overlay_alpha.elapsed_time = 50
    /\ button.mesh_uniform.overlay_alpha = button.overlay_alpha.current[1]
    /\ button.mesh_uniform_buffer_to_update
    /\ ~button.vertex_buffer_to_update

\* ---------------------------------------------------------------------------
\* The interpolation branch never completes
\* ---------------------------------------------------------------------------

\* The step is an update(dt) that takes the interpolation branch with
\* 0 <= dt < remaining.
InterpolationStep ==
    /\ last'.op = "update"
    /\ 0 <= last'.arg
    /\ last'.arg < anim.duration - anim.elapsed_time

\* C21: an update(dt) that takes the interpolation branch (0 <= dt < remaining)
\* on a value with current # target leaves current # target: only the snap
\* branch makes them equal.
C21_OnlySnapCompletes ==
    [][(InterpolationStep /\ ~Complete(anim)) => ~Complete(anim')]_vars

\* An interpolation step has moved current three quarters of the way from 0
\* to 100 in three steps of 250 ms and the animation is still running.
C21_Witness ==
    /\ last.op = "update"
    /\ last.arg = 250
    /\ hist.n = 3
    /\ hist.lo = 250
    /\ anim.duration = 1000
    /\ anim.elapsed_time = 750
    /\ hist.c0 = <<Fin(0)>>
    /\ anim.current = <<Fin(75)>>
    /\ ~Complete(anim)

\* ---------------------------------------------------------------------------
\* Context::render, pipeline grouping
\* ---------------------------------------------------------------------------

\* The positions of the calls of a rendered frame that are the given call.
CallsAt(calls, call) == {i \in DOMAIN calls : calls[i] = call}

\* In the calls of a frame, the callback for the pipeline is invoked once, right
\* after the pipeline was set and the camera bind group bound at index 0, and
\* before the submit and the present, which come last and in that order.
PipelineGrouped(calls, id) ==
    /\ Cardinality(CallsAt(calls, [op |-> "draw_calls", pipeline_id |-> id])) = 1
    /\ \A i \in CallsAt(calls, [op |-> "draw_calls", pipeline_id |-> id]) :
         /\ i >= 3
         /\ calls[i - 2] = [op |-> "set_pipeline", pipeline_id |-> id]
         /\ calls[i - 1] = [op |-> "set_bind_group", index |-> 0, bind_group |-> "camera"]
         /\ i < Len(calls) - 1

\* C22: a Context::render that succeeds sets each registered pipeline and binds
\* the camera bind group at index 0 before it invokes the draw callback, invokes
\* the callback exactly once for each pipeline with that pipeline's ID, and
\* submits the queue and presents the frame only after all the callbacks.
C22_DrawsGroupedByPipeline ==
    [][(sframe # <<>> /\ sframe'.render.result = "Ok") =>
         LET calls == sframe'.render.calls
         IN /\ \A id \in sframe.render_pipelines : PipelineGrouped(calls, id)
            /\ Len(calls) = 3 * Cardinality(sframe.render_pipelines) + 2
            /\ calls[Len(calls) - 1] = [op |-> "submit"]
            /\ calls[Len(calls)] = [op |-> "present"]
            /\ sframe'.render.callbacks = Cardinality(sframe.render_pipelines)]_vars

\* A frame was rendered over two pipelines, the text pipeline first.
C22_Witness ==
    /\ sframe # <<>>
    /\ sframe.render.result = "Ok"
    /\ sframe.render_pipelines = {ID_GENERAL, ID_TEXT}
    /\ sframe.render.calls[1] = [op |-> "set_pipeline", pipeline_id |-> ID_TEXT]
    /\ sframe.render.calls[6] = [op |-> "draw_calls", pipeline_id |-> ID_GENERAL]
    /\ sframe.render.submitted
    /\ sframe.render.presented

\* ---------------------------------------------------------------------------
\* Button::consume_event, return value
\* ---------------------------------------------------------------------------

\* The step is a Button::consume_event.
IsConsumeEvent == button # <<>> /\ bev'.n = bev.n + 1

\* The button after the step is the button before it with the one flag toggled
\* and the target of the overlay alpha moved by one increment, up when the flag
\* was set and down when it was cleared.
Toggled(flag) ==
    LET delta == IF button'[flag] THEN AlphaStep ELSE Neg(AlphaStep)
    IN /\ button'[flag] # button[flag]
       /\ button' = [button EXCEPT
                       ![flag] = ~button[flag],
                       !.overlay_alpha.target = <<Add(button.overlay_alpha.target[1], delta)>>,
                       !.overlay_alpha.elapsed_time = 0]

\* The events the claim lists as ignored: a cursor move that stays on the same
\* side of the boundary, a left press while not hovered, a left release while not
\* pressed, any event of another mouse button.
IgnoredEvent(event) ==
    \/ event.type = "CursorMoved" /\ (CursorOnButton(button, event.position) <=> button.hovered)
    \/ IsLeft(event, "Pressed") /\ ~button.hovered
    \/ IsLeft(event, "Released") /\ ~button.pressed
    \/ event.type = "MouseInput" /\ event.button # "Left"

\* C23: consume_event returns true exactly when it toggled hovered or pressed
\* and moved the alpha target by one increment; otherwise it returns false and
\* changes nothing. The ignored events leave the button unchanged; a left
\* release while pressed is handled also when the cursor is not hovering.
C23_ConsumedIffToggled ==
    [][IsConsumeEvent =>
         /\ bev'.event_consumed <=> (Toggled("hovered") \/ Toggled("pressed"))
         /\ ~bev'.event_consumed => button' = button
         /\ IgnoredEvent(bev'.event) => (~bev'.event_consumed /\ button' = button)
         /\ (IsLeft(bev'.event, "Released") /\ button.pressed) =>
              (bev'.event_consumed /\ ~button'.pressed /\ Toggled("pressed"))]_vars

\* The left button was released with the cursor off the button after a press on
\* it: the release was consumed.
C23_Witness ==
    /\ button # <<>>
    /\ bev.last = "consume_event"
    /\ IsLeft(bev.event, "Released")
    /\ bev.event_consumed
    /\ bev.presses = 1
    /\ ~button.hovered
    /\ ~button.pressed
    /\ button.overlay_alpha.target = <<Fin(0)>>

\* ---------------------------------------------------------------------------
\* Overlay-alpha target and the two flags
\* ---------------------------------------------------------------------------

\* The number of flags among hovered and pressed that are true.
TrueFlags(b) == (IF b.hovered THEN 1 ELSE 0) + (IF b.pressed THEN 1 ELSE 0)

\* C24: in every reachable Button state the target of the overlay alpha is the
\* increment (0.1) times the number of true flags among hovered and pressed: 0,
\* 1 or 2 increments, never negative.
C24_AlphaTargetCountsFlags ==
    button # <<>> =>
        /\ button.overlay_alpha.target = <<Mul(Fin(TrueFlags(button)), AlphaStep)>>
        /\ \E k \in 0..2 : button.overlay_alpha.target = <<Mul(Fin(k), AlphaStep)>>
        /\ LeVal(Fin(0), button.overlay_alpha.target[1])

\* The button is hovered and pressed and its alpha target is two increments.
C24_Witness ==
    /\ button # <<>>
    /\ button.hovered
    /\ button.pressed
    /\ bev.presses = 1
    /\ button.overlay_alpha.target = <<Norm(2, 10)>>

\* ---------------------------------------------------------------------------
\* Linear interpolation over the cumulative time
\* ---------------------------------------------------------------------------

\* The value on the straight line from c0 to the target at time t of the duration.
LinearValue(a, c0, t) == TAdd(c0, TScale(TSub(a.target, c0), Norm(t, a.duration)))

\* The updates made since the last set_target (or new) add up to a time t with
\* 0 <= t < duration.
WithinDuration == hist.n >= 1 /\ 0 <= hist.cum /\ hist.cum < anim.duration

\* C25: after update calls of cumulative time t, 0 <= t < duration, since the
\* last set_target, current is c0 + (target - c0) * t / duration, whatever the
\* steps t is made of.
C25_LinearInCumulativeTime ==
    WithinDuration => anim.current = LinearValue(anim, hist.c0, hist.cum)

\* The same law for steps that are all >= 0, the part of C25 the code keeps.
LinearInForwardTime ==
    (WithinDuration /\ hist.lo >= 0) => anim.current = LinearValue(anim, hist.c0, hist.cum)

\* Three unequal forward steps (100, 250 and 0 ms in some order) of a retargeted
\* animation of 1000 ms have moved current to 35 % of the way.
ForwardTimeWitness ==
    /\ WithinDuration
    /\ hist.k >= 1
    /\ hist.n = 3
    /\ hist.lo = 0
    /\ hist.hi = 250
    /\ hist.cum = 350
    /\ anim.duration = 1000
    /\ hist.c0 = <<Fin(0)>>
    /\ anim.current = <<Fin(35)>>

\* ---------------------------------------------------------------------------
\* The CPU snapshot of a Button
\* ---------------------------------------------------------------------------

\* C26: in every reachable Button state the CPU snapshot mirrors the animated
\* values: mesh_uniform.position is position.current, mesh_uniform.overlay_alpha
\* is overlay_alpha.current and vertices is compute_vertices(size.current).
C26_SnapshotMirrorsAnimated ==
    button # <<>> =>
        /\ button.mesh_uniform.position = button.position.current
        /\ button.mesh_uniform.overlay_alpha = button.overlay_alpha.current[1]
        /\ button.vertices = ComputeVertices(button.size.current)

\* The overlay alpha is half way to one increment after an update, and the
\* uniform holds that value.
C26_Witness ==
    /\ button # <<>>
    /\ bev.last = "update"
    /\ button.overlay_alpha.target = <<AlphaStep>>
    /\ button.overlay_alpha.current = <<Norm(1, 20)>>
    /\ button.mesh_uniform.overlay_alpha = Norm(1, 20)
    /\ button.mesh_uniform.position = <<Fin(350), Fin(250)>>

\* ---------------------------------------------------------------------------
\* The overlay alpha settles
\* ---------------------------------------------------------------------------

\* The overlay alpha has reached its target, the mesh-uniform flag is clear and
\* the uniform buffer on the GPU holds the target.
AlphaSettled ==
    /\ Complete(button.overlay_alpha)
    /\ ~button.mesh_uniform_buffer_to_update
    /\ bgpu.mesh_uniform_buffer.overlay_alpha = button.overlay_alpha.target[1]

\* An update or a draw of a settled button uploads nothing and marks nothing.
SettledStaysQuiet ==
    (AlphaSettled /\ bev'.n = bev.n) =>
        /\ bev'.last = "draw" => bgpu'.writes = <<>>
        /\ bgpu'.vertex_buffer = bgpu.vertex_buffer
        /\ bgpu'.mesh_uniform_buffer = bgpu.mesh_uniform_buffer
        /\ ~button'.mesh_uniform_buffer_to_update

\* No coordinate of the position given to Button::new is NaN.
PositionIsNumber ==
    \A i \in DOMAIN button.position.current : ~IsNaN(button.position.current[i])

QuadIndices == <<0, 1, 2, 2, 3, 0>>

DrawOffPipeline ==
    tframe # <<>> /\ tframe'.last = "draw" /\ ~tframe'.text_pipeline_active

\* C29: a Text::draw called while the active pipeline is not the text pipeline
\* writes no buffer, queues no glyph, fills no cache and draws nothing, and it
\* leaves the two dirty flags and the enlarge flag as they were: an upload that
\* is owed is made by the next draw under the text pipeline.
C29_DrawOffPipelineDoesNothing ==
    [][/\ DrawOffPipeline =>
            /\ tframe'.writes = <<>>
            /\ tframe'.calls = <<>>
            /\ tframe'.cached_by = "None"
            /\ texts' = texts
            /\ fonts' = fonts
       /\ (tframe # <<>> /\ tframe'.last = "draw" /\ tframe'.text_pipeline_active) =>
            tframe'.writes = OwedWrites(texts[tframe'.text])]_vars

\* A draw under another pipeline has left the owed uniform upload of a text
\* pending, with glyphs of the text not yet in the cache.
C29_Witness ==
    /\ tframe # <<>>
    /\ tframe.last = "draw"
    /\ ~tframe.text_pipeline_active
    /\ tframe.text \in DOMAIN texts
    /\ texts[tframe.text].mesh_uniform_buffer_to_update
    /\ texts[tframe.text].mesh_uniform_buffer # texts[tframe.text].mesh_uniform
    /\ fonts[ID_DEFAULT].cache.cached = {}
    /\ fonts[ID_DEFAULT].cache.queue = {}

====
